---- MODULE Spec2Model ----
(***************************************************************************)
(* The chat overlay client of nrrd_twitch_bot: the WebSocket connection    *)
(* with its reconnect timer, the frame dispatcher (msg_handler), the        *)
(* overlay's message nodes and the pronoun enrichment with its two caches.  *)
(*                                                                           *)
(* Three scripts exist in the repository:                                    *)
(*   "templates"  templates/overlay.js  dispatcher + enrichment + connect() *)
(*   "static"     static/overlay.js     the same file followed by an older  *)
(*                copy; function declarations hoist, so the later           *)
(*                add_chat_msg and connect win and connect() is called twice *)
(*   "legacy"     the early script: one top-level socket, no reconnect      *)
(* The page runs one of them; `page` says which.                            *)
(*                                                                           *)
(* One step of the model is one task of the page's event loop: a socket     *)
(* event handler, a timer callback, or the resumption of an async function  *)
(* after a fetch settled (with the microtasks that follow it).              *)
(***************************************************************************)
EXTENDS Integers, Sequences, FiniteSets, TLC

(* page             which script the page loaded                           *)
(* sockets          the WebSocket objects in creation order (connect)      *)
(* timers           due times of the pending setTimeout(connect) callbacks *)
(* now              Date.now()                                             *)
(* nframes, nextId  frames dispatched so far; the next fresh message id    *)
(* overlay          the children of #chat_overlay, first to last           *)
(* tasks            the add_pronouns calls, in call order, with the await  *)
(*                  each is suspended at (pc) and the error it ended with  *)
(* pronouns_lookup  the global of that name: pronoun id -> display text    *)
(* user_pronouns    the global of that name: login -> cache entry          *)
(* pronoun_id       the implicit global lookup_user_pronouns assigns       *)
(* calls            fetches issued so far, per endpoint                    *)
(* last             the last frame or transport error handled              *)
(* lim              what the environment does in this run                  *)
VARIABLES page, sockets, timers, now, nframes, nextId, overlay, tasks,
          pronouns_lookup, user_pronouns, pronoun_id, calls, last, lim

vars == <<page, sockets, timers, now, nframes, nextId, overlay, tasks,
          pronouns_lookup, user_pronouns, pronoun_id, calls, last, lim>>

----------------------------------------------------------------------------
(* Bounds of the model *)

\* frames dispatched in a run of Spec
MaxFrames == 3
\* frames dispatched in a run of SpecConn
MaxConnFrames == 1
\* sockets created in a run of SpecConn
MaxConnSockets == 5
\* milliseconds that pass between two tasks when time passes
TickStep == 250000
\* frames dispatched in a run of SpecCache
MaxCacheFrames == 2
\* the clock of SpecCache runs up to here
MaxNow == 750000
\* frames dispatched in a run of SpecWide
MaxWideFrames == 1

(* Program constants *)

\* check_cache_time: the staleness window in ms
StaleWindow == 500000
\* setTimeout delay of templates/overlay.js
ReconnectDelay == 5000
\* setTimeout delay of the connect() that wins in static/overlay.js
StaticReconnectDelay == 2000

----------------------------------------------------------------------------
(* Inputs *)

Pages == {"templates", "static", "legacy"}

\* stable user ids of the authors, and the login of each
Users == {101, 102}
LoginOf(u) == IF u = 101 THEN "alice" ELSE "bob"
Logins == {LoginOf(u) : u \in Users}

\* message texts, as sequences of characters; "s" stands for \u0001
PlainText == <<"h", "i">>
ActionText == <<"s", "A", "C", "T", "I", "O", "N", "h", "i", "s">>
Texts == {PlainText, ActionText}
\* further texts: the marker alone, in the middle, in lower case, an
\* action with nothing between the wrapper, and an action as the protocol
\* sends it, with a space after the marker
TextSamples ==
  Texts \cup {<<"A", "C", "T", "I", "O", "N">>,
              <<"s", "A", "C", "T", "I", "O", "N", " ", "h", "i", "s">>,
              <<"h", "i", "A", "C", "T", "I", "O", "N", "y", "o">>,
              <<"a", "c", "t", "i", "o", "n">>,
              <<"s", "A", "C", "T", "I", "O", "N", "s">>}
ActionMarker == <<"A", "C", "T", "I", "O", "N">>

\* a frame's data: valid is FALSE for a payload that is not JSON
NoFrame ==
  [valid |-> TRUE, msg_type |-> "none", id |-> 0, uid |-> 0, nickname |-> "",
   msg_text |-> <<>>, username |-> "", target_user_id |-> 0,
   target_msg_id |-> 0]
Malformed == [NoFrame EXCEPT !.valid = FALSE, !.msg_type = "garbage"]
Privmsg(m, u, t) ==
  [NoFrame EXCEPT !.msg_type = "privmsg", !.id = m, !.uid = u,
                  !.nickname = LoginOf(u), !.msg_text = t]
Clearchat(name, u) ==
  [NoFrame EXCEPT !.msg_type = "clearchat", !.username = name,
                  !.target_user_id = u]
Clearmsg(m) == [NoFrame EXCEPT !.msg_type = "clearmsg", !.target_msg_id = m]
Unrouted == [NoFrame EXCEPT !.msg_type = "usernotice"]

\* the frames the server can send next, with texts of T; message ids are
\* fresh
FramesAt(n, T) ==
  {Privmsg(n, u, t) : u \in Users, t \in T}
    \cup {Clearchat("", 0)}
    \cup {Clearchat(LoginOf(u), u) : u \in Users}
    \cup {Clearmsg(m) : m \in 1..n}
    \cup {Malformed, Unrouted}

\* getBoundingClientRect().y of the overlay after the append: layout input
RectYs == {-1, 0}

----------------------------------------------------------------------------
(* The overlay's message nodes *)

\* String.prototype.includes
Includes(s, sub) ==
  \E i \in 1..Len(s) : i + Len(sub) - 1 <= Len(s)
                       /\ SubSeq(s, i, i + Len(sub) - 1) = sub

\* a mutant that keeps the last character
Slice7_keep(s) ==
  IF Len(s) > 7 THEN SubSeq(s, 8, Len(s)) ELSE <<>>

\* String.prototype.slice(7, -1)
Slice7(s) ==
  IF Len(s) - 1 > 7 THEN SubSeq(s, 8, Len(s) - 1) ELSE <<>>

\* the subtree add_chat_msg builds for a privmsg.
\* cls holds the class tokens besides the literal chat_message, which every
\* node carries and no target id equals. uid is not stored by the code: it
\* records the author for the properties. ptag is the pronoun_tag
\* placeholder, ptext its innerHTML.
MsgDiv(f) ==
  [id |-> f.id, cls |-> {f.id}, uid |-> f.uid, kids |-> TRUE, ptag |-> TRUE,
   ptext |-> "",
   body |-> IF Includes(f.msg_text, ActionMarker) THEN Slice7(f.msg_text)
            ELSE f.msg_text,
   style |-> IF Includes(f.msg_text, ActionMarker) THEN "msg_text slash_me"
             ELSE "msg_text"]

\* a mutant that inserts the node as the first child
add_chat_msg_first(dom, f) == <<MsgDiv(f)>> \o dom

\* add_chat_msg of templates/overlay.js
add_chat_msg(dom, f) == Append(dom, MsgDiv(f))

\* add_chat_msg of the older copy (static/overlay.js 116-132, the early
\* script 1-17): every parsed frame becomes a node, whatever its msg_type
add_chat_msg_html(dom, f) ==
  Append(dom,
    [id |-> f.id, cls |-> {}, uid |-> f.uid, kids |-> TRUE,
     ptag |-> FALSE, ptext |-> "", body |-> f.msg_text, style |-> ""])

\* a mutant that evicts the newest node
clear_out_of_bounds_newest(dom, y) ==
  IF y < 0 THEN SubSeq(dom, 1, Len(dom) - 1) ELSE dom

\* clear_out_of_bounds
clear_out_of_bounds(dom, y) ==
  IF y < 0 THEN Tail(dom) ELSE dom

\* document.getElementsByClassName(c), as the positions of the nodes
ByClass(dom, c) == {i \in 1..Len(dom) : c \in dom[i].cls}

RECURSIVE RemoveAt(_, _)
RemoveAt(dom, S) ==
  IF dom = <<>> THEN <<>>
  ELSE LET rest == RemoveAt(Tail(dom), {i - 1 : i \in S \ {1}})
       IN IF 1 \in S THEN rest ELSE <<Head(dom)>> \o rest

\* a clear-all mutant that leaves the newest node
delete_chat_messages_keep(dom, f) ==
  IF f.username = "" /\ dom # <<>> THEN <<dom[Len(dom)]>>
  ELSE RemoveAt(dom, ByClass(dom, f.target_user_id))

\* delete_chat_messages
delete_chat_messages(dom, f) ==
  IF f.username = "" THEN <<>>
  ELSE RemoveAt(dom, ByClass(dom, f.target_user_id))

\* document.getElementById(m): the first node with that id, 0 for null
GetElementById(dom, m) ==
  IF \E i \in 1..Len(dom) : dom[i].id = m
  THEN CHOOSE i \in 1..Len(dom) :
         dom[i].id = m /\ \A j \in 1..(i - 1) : dom[j].id # m
  ELSE 0

\* element.innerHTML = "" on a message node
Emptied(n) ==
  [n EXCEPT !.kids = FALSE, !.ptag = FALSE, !.ptext = "", !.body = <<>>,
            !.style = ""]

\* a mutant that removes the node instead of emptying it
delete_individual_message_rm(dom, f) ==
  LET i == GetElementById(dom, f.target_msg_id)
  IN IF i = 0 THEN [threw |-> TRUE, dom |-> dom]
     ELSE [threw |-> FALSE, dom |-> RemoveAt(dom, {i})]

\* delete_individual_message: a TypeError when getElementById gave null
delete_individual_message(dom, f) ==
  LET i == GetElementById(dom, f.target_msg_id)
  IN IF i = 0 THEN [threw |-> TRUE, dom |-> dom]
     ELSE [threw |-> FALSE, dom |-> [dom EXCEPT ![i] = Emptied(dom[i])]]

----------------------------------------------------------------------------
(* The connection *)

\* new WebSocket(...) with the handlers the script assigns to it
NewSocket(pg) ==
  [state |-> "connecting", wasClean |-> FALSE,
   onmessage |-> IF pg = "templates" THEN "msg_handler" ELSE "add_chat_msg"]

\* connect()
connect(pg, socks) == Append(socks, NewSocket(pg))

\* the top-level statements of the script
Script(pg) ==
  IF pg = "static" THEN connect(pg, connect(pg, <<>>))
  ELSE IF pg = "templates" THEN connect(pg, <<>>)
  ELSE <<NewSocket(pg)>>

Delay(pg) == IF pg = "static" THEN StaticReconnectDelay ELSE ReconnectDelay

\* a mutant that gives up after the second socket
onclose_capped(pg, wasClean, tm, t, n) ==
  IF wasClean \/ pg = "legacy" \/ n >= 2 THEN tm ELSE Append(tm, t + Delay(pg))

\* a mutant that retries after a clean close too
onclose_always(pg, wasClean, tm, t, n) ==
  IF pg = "legacy" THEN tm ELSE Append(tm, t + Delay(pg))

\* socket.onclose: the pending timers after it ran at time t, n sockets
\* having been created so far
onclose(pg, wasClean, tm, t, n) ==
  IF wasClean \/ pg = "legacy" THEN tm ELSE Append(tm, t + Delay(pg))

----------------------------------------------------------------------------
(* The enrichment *)

PronounIds == {"hehim", "sheher", "other"}
Display(p) == IF p = "hehim" THEN "He/Him" ELSE "She/Her"

\* what get('pronouns') can settle to: data is the parsed body
BuildResponses ==
  {[kind |-> "list",
    data |-> <<[name |-> "hehim", display |-> Display("hehim")],
               [name |-> "sheher", display |-> Display("sheher")]>>],
   [kind |-> "nonlist", data |-> <<>>],
   [kind |-> "reject", data |-> <<>>]}

\* what get('users/<login>') can settle to
UserResponses ==
  {[kind |-> "list", data |-> d] :
      d \in {<<>>, <<"hehim">>, <<"sheher">>, <<"other">>,
             <<"hehim", "sheher">>}}
    \cup {[kind |-> "nonlist", data |-> <<>>],
          [kind |-> "reject", data |-> <<>>]}

\* pronouns_lookup is a set of <<name, display>> pairs, one per key
HasKey(table, k) == \E e \in table : e[1] = k
Lookup(table, k) == (CHOOSE e \in table : e[1] = k)[2]

RECURSIVE PutAll(_, _)
PutAll(table, items) ==
  IF items = <<>> THEN table
  ELSE PutAll({e \in table : e[1] # Head(items).name}
                \cup {<<Head(items).name, Head(items).display>>},
              Tail(items))

\* build_pronoun_lookup after its await: the table it leaves
build_pronoun_lookup(table, r) ==
  IF r.kind = "list" THEN PutAll(table, r.data) ELSE table

\* a mutant that takes the first record of any non-empty list
ResolveId_first(r) ==
  IF r.kind = "list" /\ Len(r.data) >= 1 THEN r.data[1] ELSE "null"

\* lookup_user_pronouns after the per-user response: the value of pronoun_id
ResolveId(r) ==
  IF r.kind = "list" /\ Len(r.data) = 1 THEN r.data[1] ELSE "null"

\* lookup_user_pronouns: its return value
lookup_user_pronouns(table, r) ==
  IF HasKey(table, ResolveId(r)) THEN Lookup(table, ResolveId(r)) ELSE ""

NoEntry == [present |-> FALSE, cache_time |-> 0, pronouns |-> ""]

\* a mutant that writes the text under every login
CacheWrite_all(cache, login, text, t) ==
  [l \in DOMAIN cache |->
     [present |-> TRUE, cache_time |-> t, pronouns |-> text]]

\* add_user_pronoun_cache / update_user_pronoun_cache after their await
CacheWrite(cache, login, text, t) ==
  [cache EXCEPT ![login] =
     [present |-> TRUE, cache_time |-> t, pronouns |-> text]]

\* a mutant whose window excludes its last instant
check_cache_time_strict(cache, login, t) ==
  t < cache[login].cache_time + StaleWindow

\* check_cache_time
check_cache_time(cache, login, t) ==
  t <= cache[login].cache_time + StaleWindow

\* a mutant that removes the node it writes to
write_pronouns_rm(dom, cache, m, login) ==
  LET i == GetElementById(dom, m)
  IN IF i = 0 \/ ~dom[i].ptag THEN [threw |-> TRUE, dom |-> dom]
     ELSE [threw |-> FALSE, dom |-> RemoveAt(dom, {i})]

\* write_pronouns: a TypeError when the node is gone (msg_block is null) or
\* was emptied (pronoun_block is undefined)
write_pronouns(dom, cache, m, login) ==
  LET i == GetElementById(dom, m)
  IN IF i = 0 \/ ~dom[i].ptag THEN [threw |-> TRUE, dom |-> dom]
     ELSE [threw |-> FALSE,
           dom |-> [dom EXCEPT ![i].ptext = cache[login].pronouns]]

\* add_pronouns up to its first await: which branch it takes
Branch(cache, login, t) ==
  IF cache[login].present
  THEN IF check_cache_time(cache, login, t) THEN "cached" ELSE "update"
  ELSE "add"

\* lookup_user_pronouns up to its first await: the call it is waiting for
FirstAwait(table) == IF table = {} THEN "build" ELSE "user"

\* an add_pronouns call: built and data are what its awaits of
\* get('pronouns') and get('users/<login>') gave it (the locals `data`)
NoData == [kind |-> "none", data |-> <<>>]
Task(f, kind, pc) ==
  [id |-> f.id, nickname |-> f.nickname, kind |-> kind, pc |-> pc,
   err |-> "none", built |-> "none", data |-> NoData]

\* add_pronouns as called from msg_handler, up to its first await: the
\* state it leaves. A fresh cache entry is written at once; otherwise the
\* first external call is issued and the task waits for it.
add_pronouns(st, f, t) ==
  LET br == Branch(st.cache, f.nickname, t)
      pc == FirstAwait(st.table)
      wp == write_pronouns(st.dom, st.cache, f.id, f.nickname)
  IN IF br = "cached"
     THEN [st EXCEPT !.dom = wp.dom,
                     !.tasks = Append(@,
                       [Task(f, br, IF wp.threw THEN "rejected" ELSE "done")
                          EXCEPT !.err = IF wp.threw THEN "TypeError"
                                         ELSE "none"])]
     ELSE [st EXCEPT !.tasks = Append(@, Task(f, br, pc)),
                     !.calls = [@ EXCEPT ![pc] = @ + 1]]

\* msg_handler: the state it leaves and whether an exception left it.
\* JSON.parse throws on a payload that is not JSON.
msg_handler(st, f, y, t) ==
  IF ~f.valid THEN [st EXCEPT !.threw = TRUE]
  ELSE IF f.msg_type = "privmsg"
  THEN LET a == add_pronouns([st EXCEPT !.dom = add_chat_msg(st.dom, f)], f, t)
       IN [a EXCEPT !.dom = clear_out_of_bounds(a.dom, y)]
  ELSE IF f.msg_type = "clearchat"
  THEN [st EXCEPT !.dom = delete_chat_messages(st.dom, f)]
  ELSE IF f.msg_type = "clearmsg"
  THEN LET d == delete_individual_message(st.dom, f)
       IN [st EXCEPT !.dom = d.dom, !.threw = d.threw]
  ELSE st

\* socket.onmessage = add_chat_msg of the older copy
html_handler(st, f) ==
  IF ~f.valid THEN [st EXCEPT !.threw = TRUE]
  ELSE [st EXCEPT !.dom = add_chat_msg_html(st.dom, f)]

----------------------------------------------------------------------------
(* The state machine *)

\* last: the last frame or transport error a socket handler was called
\* with, and whether an exception left the handler
NoEvent == [ev |-> "load", f |-> NoFrame, y |-> 0, threw |-> FALSE]

InitPage(pg, l) ==
  /\ page = pg
  /\ sockets = Script(pg)
  /\ timers = <<>>
  /\ now = 0
  /\ nframes = 0
  /\ nextId = 1
  /\ overlay = <<>>
  /\ tasks = <<>>
  /\ pronouns_lookup = {}
  /\ user_pronouns = [l2 \in Logins |-> NoEntry]
  /\ pronoun_id = "undefined"
  /\ calls = [build |-> 0, user |-> 0]
  /\ last = NoEvent
  /\ lim = l

\* lim is what the environment does in a run: how many frames the server
\* sends and how many connections it lets fail, how long the clock runs
\* (lim.now; beyond it time passes only while a reconnect timer waits),
\* which texts the messages carry and how the pronoun service answers.

\* the page of templates/overlay.js: the dispatcher and the overlay
Init ==
  InitPage("templates",
    [frames |-> MaxFrames, sockets |-> 1, now |-> 0,
     texts |-> {PlainText},
     builds |-> {r \in BuildResponses : r.kind # "nonlist"},
     users |-> {r \in UserResponses :
                  r.kind = "reject" \/ r.data = <<"hehim">>}])

\* any of the three pages, longer connection histories
InitConn ==
  \E pg \in Pages :
    InitPage(pg,
      [frames |-> MaxConnFrames, sockets |-> MaxConnSockets, now |-> 0,
       texts |-> {PlainText},
       builds |-> {r \in BuildResponses : r.kind = "list"},
       users |-> {r \in UserResponses : r.data = <<"hehim">>}])

\* the templates page while time passes: cache entries age
InitCache ==
  InitPage("templates",
    [frames |-> MaxCacheFrames, sockets |-> 1, now |-> MaxNow,
     texts |-> {PlainText},
     builds |-> {r \in BuildResponses : r.kind # "nonlist"},
     users |-> {r \in UserResponses :
                  r.kind = "reject" \/ r.data \in {<<>>, <<"hehim">>}}])

\* the templates page with every text and every answer of the service
InitWide ==
  InitPage("templates",
    [frames |-> MaxWideFrames, sockets |-> 1, now |-> 0,
     texts |-> TextSamples, builds |-> BuildResponses,
     users |-> UserResponses])

Live(i) == sockets[i].state \in {"connecting", "open"}

\* socket.onopen
Open(i) ==
  /\ sockets[i].state = "connecting"
  /\ sockets' = [sockets EXCEPT ![i].state = "open"]
  /\ UNCHANGED <<page, timers, now, nframes, nextId, overlay, tasks,
                 pronouns_lookup, user_pronouns, pronoun_id, calls, last, lim>>

\* a mutant whose error handler schedules a connection attempt
Error_retries(i) ==
  /\ Live(i)
  /\ last' = [NoEvent EXCEPT !.ev = "error"]
  /\ timers' = Append(timers, now + ReconnectDelay)
  /\ UNCHANGED <<page, sockets, now, nframes, nextId, overlay, tasks,
                 pronouns_lookup, user_pronouns, pronoun_id, calls, lim>>

\* socket.onerror
Error(i) ==
  /\ Live(i)
  /\ last' = [NoEvent EXCEPT !.ev = "error"]
  /\ UNCHANGED <<page, sockets, timers, now, nframes, nextId, overlay, tasks,
                 pronouns_lookup, user_pronouns, pronoun_id, calls, lim>>

\* socket.onclose. A clean close needs an established connection. The
\* server stops failing connections once lim.sockets sockets are spoken for.
Close(i, clean) ==
  /\ Live(i)
  /\ clean => sockets[i].state = "open"
  /\ ~clean => Len(sockets) + Len(timers) < lim.sockets
  /\ sockets' = [sockets EXCEPT ![i].state = "closed", ![i].wasClean = clean]
  /\ timers' = onclose(page, clean, timers, now, Len(sockets))
  /\ UNCHANGED <<page, now, nframes, nextId, overlay, tasks, pronouns_lookup,
                 user_pronouns, pronoun_id, calls, last, lim>>

\* the setTimeout callback: function() {connect();}
TimerFire ==
  /\ timers # <<>>
  /\ Head(timers) <= now
  /\ timers' = Tail(timers)
  /\ sockets' = connect(page, sockets)
  /\ UNCHANGED <<page, now, nframes, nextId, overlay, tasks, pronouns_lookup,
                 user_pronouns, pronoun_id, calls, last, lim>>

\* time passes
Tick ==
  /\ \/ now + TickStep <= lim.now
     \/ timers # <<>> /\ Head(timers) > now
  /\ now' = now + TickStep
  /\ UNCHANGED <<page, sockets, timers, nframes, nextId, overlay, tasks,
                 pronouns_lookup, user_pronouns, pronoun_id, calls, last, lim>>

\* socket.onmessage on an open socket
Frame(i, f, y) ==
  /\ sockets[i].state = "open"
  /\ nframes < lim.frames
  /\ f.msg_type # "privmsg" => y = 0
  /\ LET st == [dom |-> overlay, tasks |-> tasks, calls |-> calls,
                cache |-> user_pronouns, table |-> pronouns_lookup,
                threw |-> FALSE]
         r == IF sockets[i].onmessage = "msg_handler"
              THEN msg_handler(st, f, y, now) ELSE html_handler(st, f)
     IN /\ overlay' = r.dom
        /\ tasks' = r.tasks
        /\ calls' = r.calls
        /\ last' = [ev |-> "frame", f |-> f, y |-> y, threw |-> r.threw]
  /\ nframes' = nframes + 1
  /\ nextId' = IF f.msg_type = "privmsg" THEN nextId + 1 ELSE nextId
  /\ UNCHANGED <<page, sockets, timers, now, pronouns_lookup, user_pronouns,
                 pronoun_id, lim>>

\* get('pronouns') settles for task k: build_pronoun_lookup resumes, and
\* lookup_user_pronouns goes on to its per-user call
BuildSettles(k, r) ==
  /\ tasks[k].pc = "build"
  /\ IF r.kind = "reject"
     THEN /\ tasks' = [tasks EXCEPT ![k].pc = "rejected", ![k].err = "fetch",
                                    ![k].built = r.kind]
          /\ UNCHANGED <<pronouns_lookup, calls>>
     ELSE /\ pronouns_lookup' = build_pronoun_lookup(pronouns_lookup, r)
          /\ tasks' = [tasks EXCEPT ![k].pc = "user", ![k].built = r.kind]
          /\ calls' = [calls EXCEPT !.user = @ + 1]
  /\ UNCHANGED <<page, sockets, timers, now, nframes, nextId, overlay,
                 user_pronouns, pronoun_id, last, lim>>

\* get('users/<login>') settles for task k: lookup_user_pronouns returns,
\* the cache is written and write_pronouns runs
UserSettles(k, r) ==
  /\ tasks[k].pc = "user"
  /\ IF r.kind = "reject"
     THEN /\ tasks' = [tasks EXCEPT ![k].pc = "rejected", ![k].err = "fetch",
                                    ![k].data = r]
          /\ UNCHANGED <<pronoun_id, user_pronouns, overlay>>
     ELSE LET text == lookup_user_pronouns(pronouns_lookup, r)
              cache == CacheWrite(user_pronouns, tasks[k].nickname, text, now)
              wp == write_pronouns(overlay, cache, tasks[k].id,
                                   tasks[k].nickname)
          IN /\ pronoun_id' = ResolveId(r)
             /\ user_pronouns' = cache
             /\ overlay' = wp.dom
             /\ tasks' = [tasks EXCEPT
                  ![k].pc = IF wp.threw THEN "rejected" ELSE "done",
                  ![k].err = IF wp.threw THEN "TypeError" ELSE "none",
                  ![k].data = r]
  /\ UNCHANGED <<page, sockets, timers, now, nframes, nextId,
                 pronouns_lookup, calls, last, lim>>

\* the overlay while the server keeps the connection up: frames arrive and
\* lookups settle
NextOverlay ==
  \/ \E i \in DOMAIN sockets : Open(i)
  \/ \E i \in DOMAIN sockets, f \in FramesAt(nextId, lim.texts), y \in RectYs :
       Frame(i, f, y)
  \/ \E k \in DOMAIN tasks, r \in lim.builds : BuildSettles(k, r)
  \/ \E k \in DOMAIN tasks, r \in lim.users : UserSettles(k, r)

\* every task of the event loop
Next ==
  \/ NextOverlay
  \/ \E i \in DOMAIN sockets : Error(i)
  \/ \E i \in DOMAIN sockets, clean \in BOOLEAN : Close(i, clean)
  \/ TimerFire
  \/ Tick

\* the overlay while time passes
NextCache ==
  \/ NextOverlay
  \/ Tick

Spec == Init /\ [][NextOverlay]_vars

SpecCache == InitCache /\ [][NextCache]_vars

SpecWide == InitWide /\ [][NextOverlay]_vars

SpecConn == InitConn /\ [][Next]_vars

\* the event loop runs a due timer callback, and time passes
SpecLive == InitConn /\ [][Next]_vars /\ WF_vars(TimerFire) /\ WF_vars(Tick)

----------------------------------------------------------------------------
(* Properties *)

IdsOf(dom) == [i \in 1..Len(dom) |-> dom[i].id]
Ascending(q) == \A i, j \in 1..Len(q) : i < j => q[i] < q[j]
Range(q) == {q[i] : i \in 1..Len(q)}
CountId(dom, m) == Cardinality({i \in 1..Len(dom) : dom[i].id = m})

\* socket i's close event is handled in this step
Closes(i) == sockets[i].state # "closed" /\ sockets'[i].state = "closed"
\* a frame is dispatched in this step
Dispatches == nframes' = nframes + 1
\* the sockets closed dirtily so far
Dirty == {i \in 1..Len(sockets) :
            sockets[i].state = "closed" /\ ~sockets[i].wasClean}

C2_DirtyCloseReconnects ==
  \A k \in 1..MaxConnSockets :
    (page # "legacy" /\ Cardinality(Dirty) = k)
      ~> (Len(sockets) >= Len(Script(page)) + k)

\* three consecutive dirty closes, and a fourth socket connecting
C2_Witness ==
  /\ page = "templates" /\ Len(sockets) = 4
  /\ Dirty = {1, 2, 3} /\ sockets[4].state = "connecting"

\* C3: at most one socket is live (connecting or open) at any time.
C3_SingleLiveSocket ==
  Cardinality({i \in 1..Len(sockets) : Live(i)}) <= 1

\* C4: the list of message nodes changes only when a frame is dispatched,
\* and then by that frame's effect alone: a privmsg appends its node last
\* (and the bounds check may drop the first), a clearchat removes nodes and
\* keeps the order of the rest, any other frame leaves the list as it is.
\* The nodes are always in arrival order. A lookup that settles never adds,
\* removes or reorders nodes.
C4_FrameOrder ==
  [][/\ Ascending(IdsOf(overlay'))
     /\ ~Dispatches => IdsOf(overlay') = IdsOf(overlay)
     /\ Dispatches =>
          LET f == last'.f
              ids == IdsOf(overlay)
          IN IF f.valid /\ f.msg_type = "privmsg"
             THEN IdsOf(overlay') = IF last'.y < 0 THEN Tail(Append(ids, f.id))
                                    ELSE Append(ids, f.id)
             ELSE IF f.valid /\ f.msg_type = "clearchat"
             THEN /\ Range(IdsOf(overlay')) \subseteq Range(ids)
                  /\ f.username = "" => overlay' = <<>>
             ELSE IdsOf(overlay') = ids]_vars

\* the lookup of the second message settled and wrote its pronouns while
\* the lookup of the first is still pending
C4_Witness ==
  /\ Len(overlay) = 2 /\ Len(tasks) = 2
  /\ tasks[1].pc \in {"build", "user"} /\ tasks[2].pc = "done"
  /\ overlay[2].ptext # ""

\* C5: a frame that is not JSON changes nothing, leaves the connection as
\* it is and no exception leaves msg_handler.
C5_MalformedIsSilent ==
  [][Dispatches /\ ~last'.f.valid =>
       /\ overlay' = overlay /\ tasks' = tasks /\ sockets' = sockets
       /\ ~last'.threw]_vars

\* C6: a clearmsg whose target id is not displayed changes nothing and
\* raises no error.
C6_ClearmsgMissIsNoop ==
  [][(/\ Dispatches /\ last'.f.valid /\ last'.f.msg_type = "clearmsg"
      /\ GetElementById(overlay, last'.f.target_msg_id) = 0) =>
       overlay' = overlay /\ ~last'.threw]_vars

\* C7: no two displayed nodes share a message id; add_chat_msg leaves
\* exactly one node keyed by the privmsg's id (the bounds check of the same
\* handler can evict it only as the oldest node); a clearmsg whose target is
\* displayed empties that node where it stands and leaves every other node
\* and the number of nodes unchanged.
C7_ClearmsgEmptiesInPlace ==
  [][/\ \A i, j \in 1..Len(overlay') :
          i # j => overlay'[i].id # overlay'[j].id
     /\ (Dispatches /\ last'.f.valid /\ last'.f.msg_type = "privmsg") =>
          /\ CountId(add_chat_msg(overlay, last'.f), last'.f.id) = 1
          /\ CountId(overlay', last'.f.id)
               = IF last'.y < 0 /\ overlay = <<>> THEN 0 ELSE 1
     /\ (/\ Dispatches /\ last'.f.valid /\ last'.f.msg_type = "clearmsg"
         /\ GetElementById(overlay, last'.f.target_msg_id) # 0) =>
          LET i == GetElementById(overlay, last'.f.target_msg_id)
          IN /\ Len(overlay') = Len(overlay)
             /\ overlay'[i].id = last'.f.target_msg_id
             /\ ~overlay'[i].kids /\ ~overlay'[i].ptag
             /\ overlay'[i].body = <<>>
             /\ \A j \in 1..Len(overlay) : j # i => overlay'[j] = overlay[j]
             /\ ~last'.threw]_vars

\* a clearmsg emptied the first of two nodes
C7_Witness ==
  /\ last.ev = "frame" /\ last.f.msg_type = "clearmsg" /\ ~last.threw
  /\ Len(overlay) = 2
  /\ overlay[1].id = last.f.target_msg_id
  /\ ~overlay[1].kids /\ overlay[2].kids

\* C8: a clearchat with a non-empty username removes exactly the displayed
\* messages whose author's user id is the target, keeping the others in
\* order.
C8_ClearchatRemovesAuthored ==
  [][(/\ Dispatches /\ last'.f.valid /\ last'.f.msg_type = "clearchat"
      /\ last'.f.username # "") =>
       overlay' = RemoveAt(overlay,
         {i \in 1..Len(overlay) :
            overlay[i].uid = last'.f.target_user_id})]_vars

\* C9: once a clearchat with an empty username was handled the overlay has
\* no children, and lookups that settle afterwards leave it so.
C9_ClearAllEmpties ==
  (last.ev = "frame" /\ last.f.msg_type = "clearchat" /\ last.f.username = "")
    => overlay = <<>>

\* the clear-all was the third frame, after two messages, a lookup pending
C9_Witness ==
  /\ last.ev = "frame" /\ last.f.msg_type = "clearchat"
  /\ last.f.username = "" /\ nframes = 3 /\ Len(tasks) = 2
  /\ \E k \in 1..Len(tasks) : tasks[k].pc \in {"build", "user"}

\* C10: a lookup that settles (its fetch did not fail) when its message
\* node is gone or emptied still writes the cache, and its placeholder
\* write changes nothing and raises no error.
C10_LateWriteIsNoop ==
  [][\A k \in 1..Len(tasks) :
       (/\ tasks[k].pc = "user" /\ tasks'[k].pc # "user"
        /\ tasks'[k].err # "fetch"
        /\ LET i == GetElementById(overlay, tasks[k].id)
           IN i = 0 \/ ~overlay[i].ptag) =>
         /\ user_pronouns'[tasks[k].nickname].present
         /\ overlay' = overlay
         /\ tasks'[k].err = "none"]_vars

\* task k stops waiting in this step: its last await settled
Finishes(k) ==
  tasks[k].pc \in {"build", "user"} /\ tasks'[k].pc \in {"done", "rejected"}
\* a valid privmsg is dispatched in this step
DispatchesPrivmsg ==
  Dispatches /\ last'.f.valid /\ last'.f.msg_type = "privmsg"
\* the unfinished tasks of a login
Pending(login) ==
  {k \in 1..Len(tasks) :
     tasks[k].nickname = login /\ tasks[k].pc \in {"build", "user"}}

\* C11: the call that returns the full set of pronoun pairs is made at most
\* once in the life of the page.
C11_BuildOnce == calls.build <= 1

\* C12: a privmsg whose author's cache entry is present and not older than
\* the staleness window issues no external call, leaves the cache as it is
\* and, within the handler, writes the stored text into the placeholder of
\* the message's node (the call is over when the handler returns).
C12_FreshEntryReused ==
  [][(/\ DispatchesPrivmsg
      /\ user_pronouns[last'.f.nickname].present
      /\ now <= user_pronouns[last'.f.nickname].cache_time + StaleWindow) =>
       /\ calls' = calls
       /\ user_pronouns' = user_pronouns
       /\ Len(tasks') = Len(tasks) + 1
       /\ tasks'[Len(tasks')].id = last'.f.id
       /\ tasks'[Len(tasks')].pc = "done"
       /\ CountId(overlay', last'.f.id)
            = IF last'.y < 0 /\ overlay = <<>> THEN 0 ELSE 1
       /\ \A i \in 1..Len(overlay') :
            overlay'[i].id = last'.f.id =>
              overlay'[i].ptext = user_pronouns[last'.f.nickname].pronouns]_vars

\* the second message of an author got the cached text at once, exactly at
\* the end of the staleness window
C12_Witness ==
  /\ Len(tasks) = 2 /\ tasks[2].kind = "cached" /\ tasks[2].pc = "done"
  /\ last.ev = "frame" /\ last.f.id = 2
  /\ user_pronouns[last.f.nickname].pronouns = "He/Him"
  /\ now > user_pronouns[last.f.nickname].cache_time
  /\ Len(overlay) = 2 /\ overlay[2].ptext = "He/Him"

\* C13: a privmsg whose author's entry is stale starts one refresh: it
\* issues the table build if the table is empty and else the per-user
\* lookup; when the refresh is over its per-user lookup was made, the entry
\* is overwritten and, no other refresh of that login being under way, its
\* timestamp is strictly later than before. No entry is ever deleted and
\* no timestamp ever decreases.
C13_StaleEntryRefreshed ==
  [][/\ (/\ DispatchesPrivmsg
         /\ user_pronouns[last'.f.nickname].present
         /\ now > user_pronouns[last'.f.nickname].cache_time + StaleWindow) =>
          /\ tasks'[Len(tasks')].kind = "update"
          /\ IF pronouns_lookup = {}
             THEN calls' = [calls EXCEPT !.build = @ + 1]
             ELSE calls' = [calls EXCEPT !.user = @ + 1]
     /\ \A k \in 1..Len(tasks) :
          (tasks[k].kind = "update" /\ Finishes(k)) =>
            /\ tasks'[k].data.kind \notin {"none", "reject"}
            /\ user_pronouns'[tasks[k].nickname].cache_time = now
            /\ Pending(tasks[k].nickname) = {k} =>
                 user_pronouns'[tasks[k].nickname].cache_time
                   > user_pronouns[tasks[k].nickname].cache_time
     /\ \A l \in Logins :
          user_pronouns[l].present =>
            /\ user_pronouns'[l].present
            /\ user_pronouns'[l].cache_time >= user_pronouns[l].cache_time]_vars

\* C14: when an external call of a lookup fails, no error escapes the
\* enrichment, the message nodes stay, and the failure of the per-user call
\* stores an entry with empty text for the author.
C14_FailureDegradesToEmpty ==
  [][\A k \in 1..Len(tasks) :
       (/\ tasks[k].pc \in {"build", "user"}
        /\ tasks'[k] # tasks[k]
        /\ "reject" \in {tasks'[k].built, tasks'[k].data.kind}) =>
         /\ tasks'[k].err = "none"
         /\ IdsOf(overlay') = IdsOf(overlay)
         /\ tasks[k].pc = "user" =>
              /\ user_pronouns'[tasks[k].nickname].present
              /\ user_pronouns'[tasks[k].nickname].pronouns = ""]_vars

\* C15: of two enrichments of one author that are under way at once, the
\* one that ends first has made its own per-user call and writes the cache
\* entry itself: the entry then holds its text and the time of its write.
C15_OverlapEachWrites ==
  [][\A k \in 1..Len(tasks) :
       (Finishes(k) /\ Cardinality(Pending(tasks[k].nickname)) >= 2) =>
         /\ tasks'[k].data.kind \notin {"none", "reject"}
         /\ user_pronouns'[tasks[k].nickname] =
              [present |-> TRUE, cache_time |-> now,
               pronouns |->
                 lookup_user_pronouns(pronouns_lookup, tasks'[k].data)]]_vars

\* C16: an error event leaves every socket and every pending reconnect as
\* they are; a reconnect is scheduled only in a step that closes a socket, a
\* socket is created only by a scheduled reconnect coming due, and an open
\* socket leaves the open state only by its close event.
C16_ErrorAloneChangesNothing ==
  [][/\ (last' # last /\ last'.ev = "error") =>
          sockets' = sockets /\ timers' = timers
     /\ Len(timers') > Len(timers) =>
          \E i \in 1..Len(sockets) : Closes(i)
     /\ Len(sockets') > Len(sockets) => Len(timers') < Len(timers)
     /\ \A i \in 1..Len(sockets) :
          (sockets[i].state = "open" /\ sockets'[i].state # "open") =>
            Closes(i)]_vars

\* an error was raised on the open socket of the page and nothing followed
C16_Witness ==
  /\ page = "templates" /\ last.ev = "error"
  /\ Len(sockets) = 1 /\ sockets[1].state = "open" /\ timers = <<>>

\* C17: a privmsg appends one node, the new message, after the nodes
\* displayed and then, exactly when the overlay's top is out of bounds,
\* removes the first node and no other; every node kept is as it was. A
\* clearmsg removes no node and a per-user clearchat removes no node but
\* those carrying its target class.
C17_EvictsOldestOnly ==
  [][/\ DispatchesPrivmsg =>
          LET n == Len(overlay)
          IN IF last'.y < 0
             THEN /\ Len(overlay') = n
                  /\ \A i \in 1..(n - 1) : overlay'[i] = overlay[i + 1]
                  /\ n > 0 => overlay'[n].id = last'.f.id
             ELSE /\ Len(overlay') = n + 1
                  /\ \A i \in 1..n : overlay'[i] = overlay[i]
                  /\ overlay'[n + 1].id = last'.f.id
     /\ (Dispatches /\ last'.f.valid /\ last'.f.msg_type = "clearmsg") =>
          IdsOf(overlay') = IdsOf(overlay)
     /\ (/\ Dispatches /\ last'.f.valid /\ last'.f.msg_type = "clearchat"
         /\ last'.f.username # "") =>
          \A i \in 1..Len(overlay) :
            last'.f.target_user_id \notin overlay[i].cls =>
              \E j \in 1..Len(overlay') : overlay'[j] = overlay[i]]_vars

\* the third message pushed the first one out; the second and third remain
C17_Witness ==
  /\ nframes = 3 /\ last.ev = "frame" /\ last.f.msg_type = "privmsg"
  /\ last.y < 0 /\ IdsOf(overlay) = <<2, 3>>

\* the per-user call of task k returns in this step
UserReturns(k) ==
  /\ tasks[k].pc = "user"
  /\ tasks[k].data.kind = "none"
  /\ tasks'[k].data.kind \in {"list", "nonlist"}

\* C18: when the per-user call of a lookup returns, the text cached for the
\* login is the table's display text of the record's pronoun id if the
\* response is a list of exactly one record and the table has that id, and
\* the empty string in every other case; a table build that returns
\* something other than a list leaves an empty table empty.
C18_ResolutionCases ==
  [][/\ \A k \in 1..Len(tasks) :
          UserReturns(k) =>
            LET d == tasks'[k].data
                e == user_pronouns'[tasks[k].nickname]
            IN /\ e.present
               /\ IF /\ d.kind = "list" /\ Len(d.data) = 1
                     /\ \E p \in pronouns_lookup : p[1] = d.data[1]
                  THEN \E p \in pronouns_lookup :
                         p[1] = d.data[1] /\ e.pronouns = p[2]
                  ELSE e.pronouns = ""
     /\ \A k \in 1..Len(tasks) :
          (/\ tasks[k].pc = "build" /\ tasks'[k].built = "nonlist"
           /\ pronouns_lookup = {}) =>
            pronouns_lookup' = {}]_vars

\* a single record whose id the table holds was resolved to its text
C18_Witness ==
  /\ Len(tasks) = 1 /\ tasks[1].pc = "done"
  /\ tasks[1].data = [kind |-> "list", data |-> <<"hehim">>]
  /\ user_pronouns[tasks[1].nickname].pronouns = "He/Him"
  /\ Len(overlay) = 1 /\ overlay[1].ptext = "He/Him"

\* the text holds the letters A C T I O N in a row
HasMarker(raw) ==
  \E i \in 1..Len(raw) :
    /\ i + 5 <= Len(raw)
    /\ raw[i] = "A" /\ raw[i + 1] = "C" /\ raw[i + 2] = "T"
    /\ raw[i + 3] = "I" /\ raw[i + 4] = "O" /\ raw[i + 5] = "N"

TextOf(table, d) ==
  IF d.kind = "list" /\ Len(d.data) = 1
     /\ \E p \in table : p[1] = d.data[1]
  THEN (CHOOSE p \in table : p[1] = d.data[1])[2]
  ELSE ""

\* C20: when the per-user call of a lookup for login A returns, the entry
\* of A gets the text of that response and the entry of every other login
\* stays as it is, whatever other lookups are under way; and whenever the
\* placeholder of a displayed node is written, the text written is the one
\* cached under the login of the node's author.
C20_NoCrossedResults ==
  [][/\ \A k \in 1..Len(tasks) :
          UserReturns(k) =>
            /\ user_pronouns'[tasks[k].nickname].pronouns
                 = TextOf(pronouns_lookup, tasks'[k].data)
            /\ \A l \in Logins \ {tasks[k].nickname} :
                 user_pronouns'[l] = user_pronouns[l]
     /\ \A i \in 1..Len(overlay) : \A j \in 1..Len(overlay') :
          (overlay'[j].id = overlay[i].id /\ overlay'[j].ptag
           /\ overlay'[j].ptext # overlay[i].ptext) =>
            /\ user_pronouns'[LoginOf(overlay[i].uid)].present
            /\ overlay'[j].ptext
                 = user_pronouns'[LoginOf(overlay[i].uid)].pronouns]_vars

\* two lookups, for alice and for bob, were under way at once (each issued
\* the table build) and each message got the text of its own author
C20_Witness ==
  /\ Len(tasks) = 2 /\ calls.build = 2
  /\ tasks[1].nickname # tasks[2].nickname
  /\ tasks[1].pc = "done" /\ tasks[2].pc = "done"
  /\ user_pronouns[tasks[1].nickname].pronouns = "He/Him"
  /\ user_pronouns[tasks[2].nickname].pronouns = ""
  /\ IdsOf(overlay) = <<1, 2>>
  /\ overlay[1].ptext = "He/Him" /\ overlay[2].ptext = ""

====
